---- MODULE Spec2Model ----
(***************************************************************************)
(* Model of the dirmngr command server (src/legacy/gnupg/dirmngr/server.cpp)*)
(* One connection, one command at a time.  Every handler is a sequence of  *)
(* steps; a step ends where the handler blocks in an inquiry or where it   *)
(* jumps (goto again / goto leave).  The answers of the collaborators (CRL  *)
(* cache, OCSP checker, certificate cache, chain validator, keyserver      *)
(* actions, the peer answering an inquiry) are chosen nondeterministically. *)
(* Every call a handler makes is appended to log; when the handler has     *)
(* returned (pc = "done") the command loop clears it and waits for the     *)
(* next line (pc = "idle").                                                *)
(***************************************************************************)
EXTENDS Integers, Sequences, FiniteSets, TLC

VARIABLES
  pc,            \* position of the server: "idle" (waiting for a line), a
                 \* handler label, "done" (handler returned), "fatal"
  cmd,           \* name of the command being (or last) processed
  line,          \* the argument line after skip_options
  flags,         \* the options has_option found on the line
  did_inquire,   \* cmd_isvalid: local did_inquire
  ocsp_mode,     \* cmd_isvalid: local ocsp_mode
  issuerhash,    \* cmd_isvalid: local issuerhash (copy of the line)
  serialno,      \* cmd_isvalid: local serialno
  cert,          \* handler local cert (NoCert is NULL)
  certlist,      \* cmd_validate: local certlist
  value,         \* handler local value/valuelen of the first inquiry
  log,           \* calls made by the current command, in order
  result,        \* what the last handler returned to the dispatcher
  allow_ocsp,    \* opt.allow_ocsp
  opt_keyserver, \* opt.keyserver
  keyservers,    \* ctrl->server_local->keyservers, front first
  certcache,     \* fingerprints held by the certificate cache
  seeded,        \* history: ensure_keyserver has filled the list in this session
  force_crl_refresh, \* ctrl->force_crl_refresh
  http_proxy,        \* ctrl->http_proxy ("NULL" when unset)
  http_no_crl        \* ctrl->http_no_crl

locals  == <<did_inquire, ocsp_mode, issuerhash, serialno, cert, certlist, value>>
config  == <<allow_ocsp, opt_keyserver>>
session == <<keyservers, certcache, seeded>>
request == <<force_crl_refresh, http_proxy, http_no_crl>>
vars    == <<pc, cmd, line, flags, locals, log, result, config, session,
             request>>

----------------------------------------------------------------------------
(* Bounds and program constants *)

MaxCfg == 2          \* longest opt.keyserver list explored

MAX_CERT_LENGTH     == 16384
MAX_CERTLIST_LENGTH == 436906
MAX_KEYBLOCK_LENGTH == 20971520
FPR_LEN             == 20
HEXFPR_LEN          == 40

----------------------------------------------------------------------------
(* Characters and strings: a C string is a sequence of one-character strings *)

Rep(c, n) == [i \in 1..n |-> c]

RECURSIVE RepSeq(_, _)
RepSeq(s, n) == IF n = 0 THEN <<>> ELSE s \o RepSeq(s, n - 1)

Range(s) == {s[i] : i \in DOMAIN s}

\* strchr: index of the first c in s, 0 when there is none
strchr(s, c) ==
  IF \E i \in DOMAIN s : s[i] = c
  THEN CHOOSE i \in DOMAIN s : s[i] = c /\ \A j \in 1..(i - 1) : s[j] # c
  ELSE 0

\* the printable ASCII characters, code 32 first (the double quote, the
\* backslash and the backquote are held by their names)
Ascii ==
  <<" ", "!", "DQUOTE", "#", "$", "%", "&", "'", "(", ")", "*", "+", ",", "-",
    ".", "/", "0", "1", "2", "3", "4", "5", "6", "7", "8", "9", ":", ";",
    "<", "=", ">", "?", "@", "A", "B", "C", "D", "E", "F", "G", "H", "I",
    "J", "K", "L", "M", "N", "O", "P", "Q", "R", "S", "T", "U", "V", "W",
    "X", "Y", "Z", "[", "BACKSLASH", "]", "^", "_", "BACKQUOTE", "a", "b", "c", "d", "e",
    "f", "g", "h", "i", "j", "k", "l", "m", "n", "o", "p", "q", "r", "s",
    "t", "u", "v", "w", "x", "y", "z", "{", "|", "}", "~">>

\* the byte value of a character of a command line
Ord(c) == 31 + (CHOOSE i \in DOMAIN Ascii : Ascii[i] = c)

HexDigits == {"0", "1", "2", "3", "4", "5", "6", "7", "8", "9",
              "a", "b", "c", "d", "e", "f", "A", "B", "C", "D", "E", "F"}

\* the character at position i of the NUL terminated string s
CharAt(s, i) == IF i \in DOMAIN s THEN s[i] ELSE "NUL"

hexdigitp(s, i) == CharAt(s, i) \in HexDigits

xtoi_1(c) ==
  CASE c = "0" -> 0 [] c = "1" -> 1 [] c = "2" -> 2 [] c = "3" -> 3
    [] c = "4" -> 4 [] c = "5" -> 5 [] c = "6" -> 6 [] c = "7" -> 7
    [] c = "8" -> 8 [] c = "9" -> 9
    [] c \in {"a", "A"} -> 10 [] c \in {"b", "B"} -> 11
    [] c \in {"c", "C"} -> 12 [] c \in {"d", "D"} -> 13
    [] c \in {"e", "E"} -> 14 [] c \in {"f", "F"} -> 15
    [] OTHER -> IF Ord(c) <= Ord("9") THEN Ord(c) - Ord("0")
                ELSE IF Ord(c) <= Ord("F") THEN Ord(c) - Ord("A") + 10
                ELSE Ord(c) - Ord("a") + 10

xtoi_2(s, i) == xtoi_1(CharAt(s, i)) * 16 + xtoi_1(CharAt(s, i + 1))

----------------------------------------------------------------------------
(* Certificates, payloads, events *)

NoFpr  == <<>>
NoCert == [src |-> "none", fpr |-> NoFpr]

FprAA == Rep(170, FPR_LEN)
Fpr1B == Rep(27, FPR_LEN)
Fprs  == {FprAA, Fpr1B}

\* what the peer streams back for an inquiry
Payloads ==
  {[kind |-> "empty", certs |-> <<>>], [kind |-> "garbage", certs |-> <<>>]}
  \cup {[kind |-> "good", certs |-> cs] :
          cs \in {<<>>, <<FprAA>>, <<Fpr1B>>, <<FprAA, Fpr1B>>}}

NoValue == [kind |-> "none", certs |-> <<>>]

TransportErrors == {"ASS_TOO_MUCH_DATA", "ASS_CANCELED"}

\* outcome of assuan_inquire: a transport error, or OK with a payload
InquireOutcomes ==
  {[rc |-> e, payload |-> NoValue] : e \in TransportErrors}
  \cup {[rc |-> "OK", payload |-> p] : p \in Payloads}

valuelen(p) == IF p.kind \in {"empty", "none"} THEN 0 ELSE 1

\* a logged call: its name, argument, return value, the certificate it was
\* given; for an inquiry also the size ceiling and the kind of the payload
Ev(call, arg, ret, fpr, max) ==
  [call |-> call, arg |-> arg, ret |-> ret, fpr |-> fpr, max |-> max,
   kind |-> "", ks |-> <<>>, pat |-> <<>>]

InquireEv(keyword, o, max) ==
  [call |-> "assuan_inquire", arg |-> keyword, ret |-> o.rc, fpr |-> NoFpr,
   max |-> max, kind |-> o.payload.kind, ks |-> <<>>, pat |-> <<>>]

\* a call of a keyserver action with the keyserver list it was handed
KsEv(call, ret, ks) ==
  [call |-> call, arg |-> "", ret |-> ret, fpr |-> NoFpr, max |-> 0,
   kind |-> "", ks |-> ks, pat |-> <<>>]

\* a call that is handed a pattern or a list of patterns
KsPatEv(call, ret, ks, pat) ==
  [call |-> call, arg |-> "", ret |-> ret, fpr |-> NoFpr, max |-> 0,
   kind |-> "", ks |-> ks, pat |-> pat]

PatEv(call, ret, pat) == KsPatEv(call, ret, <<>>, pat)

Count(call) == Cardinality({i \in DOMAIN log : log[i].call = call})
Bit(b) == IF b THEN "1" ELSE "0"

----------------------------------------------------------------------------
(* leave_cmd: the handler returns err to the dispatcher *)

leave_cmd(e) == pc' = "done" /\ result' = e

InitLocals ==
  /\ did_inquire = 0 /\ ocsp_mode = 0
  /\ issuerhash = <<>> /\ serialno = <<>>
  /\ cert = NoCert /\ certlist = <<>> /\ value = NoValue

ResetLocals ==
  /\ did_inquire' = 0 /\ ocsp_mode' = 0
  /\ issuerhash' = <<>> /\ serialno' = <<>>
  /\ cert' = NoCert /\ certlist' = <<>> /\ value' = NoValue

----------------------------------------------------------------------------
(* Answers of the external collaborators *)

CrlCacheResults == {"VALID", "INVALID", "DONTKNOW", "CANTUSE", "OTHER"}
OcspResults     == {"OK", "CERT_REVOKED", "NO_DATA"}
ReloadResults   == {"OK", "NO_DATA", "GENERAL"}
CrlCertResults  == {"OK", "CERT_REVOKED", "NO_CRL_KNOWN", "GENERAL"}

\* ksba_cert_new + ksba_cert_init_from_mem on an inquired value
cert_init_from_mem(p) ==
  IF p.kind = "good" /\ Len(p.certs) = 1
  THEN [err |-> "OK", cert |-> [src |-> "peer", fpr |-> p.certs[1]]]
  ELSE [err |-> "BAD_BER", cert |-> NoCert]

----------------------------------------------------------------------------
(* ISVALID *)

H40 == Rep("A", HEXFPR_LEN)
Z40 == Rep("z", HEXFPR_LEN)

IsvalidLines ==
  { <<>>, <<".">>, <<"A", "B", ".", "0", "1">>,
    H40, Z40, Rep("A", HEXFPR_LEN - 1), Rep("A", HEXFPR_LEN + 1),
    H40 \o <<".", "0", "1">>,
    H40 \o <<" ", "x">>,
    Rep("A", HEXFPR_LEN - 1) \o <<" ", "A">>,
    <<"A", " ", "B", ".", "1">>,
    Rep("A", HEXFPR_LEN - 1) \o <<"z">> }

\* the argument split of cmd_isvalid
isvalid_parse(l) ==
  LET dot == strchr(l, ".") IN
  IF dot # 0
  THEN [parm_error |-> FALSE, ocsp_mode |-> 0,
        issuerhash |-> SubSeq(l, 1, dot - 1),
        serialno |-> SubSeq(l, dot + 1, Len(l))]
  ELSE LET endp == strchr(l, " ")
           ih   == IF endp # 0 THEN SubSeq(l, 1, endp - 1) ELSE l
       IN  IF Len(ih) # HEXFPR_LEN
           THEN [parm_error |-> TRUE, ocsp_mode |-> 0,
                 issuerhash |-> ih, serialno |-> <<>>]
           ELSE [parm_error |-> FALSE, ocsp_mode |-> 1,
                 issuerhash |-> ih, serialno |-> <<>>]

cmd_isvalid ==
  /\ pc = "idle"
  /\ \E l \in IsvalidLines, only_ocsp \in BOOLEAN, fdr \in BOOLEAN :
       LET p == isvalid_parse(l) IN
       /\ cmd' = "ISVALID"
       /\ line' = l
       /\ flags' = (IF only_ocsp THEN {"--only-ocsp"} ELSE {})
                   \cup (IF fdr THEN {"--force-default-responder"} ELSE {})
       /\ log' = <<>>
       /\ did_inquire' = 0
       /\ UNCHANGED <<cert, certlist, value>>
       /\ issuerhash' = p.issuerhash
       /\ serialno' = p.serialno
       /\ ocsp_mode' = p.ocsp_mode
       /\ IF p.parm_error
          THEN leave_cmd("ASS_PARAMETER")
          ELSE pc' = "isvalid_again" /\ result' = "none"
  /\ UNCHANGED <<config, request, session>>

\* the switch on the answer of crl_cache_isvalid
isvalid_switch_mut_retry(a, did) ==
  CASE a = "VALID"    -> [next |-> "leave", err |-> "OK"]
    [] a = "INVALID"  -> [next |-> "leave", err |-> "CERT_REVOKED"]
    [] a = "DONTKNOW" -> IF did > 1
                         THEN [next |-> "leave", err |-> "NO_CRL_KNOWN"]
                         ELSE [next |-> "inquire", err |-> "OK"]
    [] a = "CANTUSE"  -> [next |-> "leave", err |-> "NO_CRL_KNOWN"]
    [] OTHER          -> [next |-> "fatal", err |-> "OK"]

isvalid_switch_mut_code(a, did) ==
  CASE a = "VALID"    -> [next |-> "leave", err |-> "OK"]
    [] a = "INVALID"  -> [next |-> "leave", err |-> "CERT_REVOKED"]
    [] a = "DONTKNOW" -> IF did # 0
                         THEN [next |-> "leave", err |-> "NO_CRL_KNOWN"]
                         ELSE [next |-> "inquire", err |-> "OK"]
    [] a = "CANTUSE"  -> [next |-> "leave", err |-> "OK"]
    [] OTHER          -> [next |-> "leave", err |-> "NO_CRL_KNOWN"]

isvalid_switch_mut_loop(a, did) ==
  CASE a = "VALID"    -> [next |-> "leave", err |-> "OK"]
    [] a = "INVALID"  -> [next |-> "leave", err |-> "CERT_REVOKED"]
    [] a = "DONTKNOW" -> [next |-> "inquire", err |-> "OK"]
    [] a = "CANTUSE"  -> [next |-> "leave", err |-> "NO_CRL_KNOWN"]
    [] OTHER          -> [next |-> "fatal", err |-> "OK"]

isvalid_switch(a, did) ==
  CASE a = "VALID"    -> [next |-> "leave", err |-> "OK"]
    [] a = "INVALID"  -> [next |-> "leave", err |-> "CERT_REVOKED"]
    [] a = "DONTKNOW" -> IF did # 0
                         THEN [next |-> "leave", err |-> "NO_CRL_KNOWN"]
                         ELSE [next |-> "inquire", err |-> "OK"]
    [] a = "CANTUSE"  -> [next |-> "leave", err |-> "NO_CRL_KNOWN"]
    [] OTHER          -> [next |-> "fatal", err |-> "OK"]

\* the OCSP branch at label again
isvalid_ocsp_mut(allow, e) == [called |-> TRUE, err |-> e]

isvalid_ocsp(allow, e) ==
  IF ~allow
  THEN [called |-> FALSE, err |-> "NOT_SUPPORTED"]
  ELSE [called |-> TRUE, err |-> e]

\* what a nested inquiry leaves in the line buffer of the transport, which
\* is the buffer the handler was given its line in: the last line read from
\* the peer
InquiryLines == {<<"E", "N", "D">>, <<"D", " ", "C", "D", ".", "0", "2">>}

\* the line buffer of the transport as it is now
linebuf ==
  LET inq == SelectSeq(log, LAMBDA e : e.call = "assuan_inquire") IN
  IF inq = <<>> THEN line ELSE inq[Len(inq)].pat

\* issuerhash and serialno as handed to crl_cache_isvalid: they point into
\* the copy of the line made with xstrdup
isvalid_ids_mut(ih, sn, buf) ==
  <<isvalid_parse(buf).issuerhash, isvalid_parse(buf).serialno>>

isvalid_ids(ih, sn, buf) == <<ih, sn>>

\* label again: of cmd_isvalid
isvalid_again ==
  /\ pc = "isvalid_again"
  /\ IF ocsp_mode = 1
     THEN \E e \in OcspResults :
            LET o == isvalid_ocsp(allow_ocsp, e) IN
            /\ log' = IF o.called
                      THEN Append(log, Ev("ocsp_isvalid",
                             Bit("--force-default-responder" \in flags),
                             e, NoFpr, 0))
                      ELSE log
            /\ leave_cmd(o.err)
     ELSE IF "--only-ocsp" \in flags
     THEN log' = log /\ leave_cmd("NO_CRL_KNOWN")
     ELSE \E a \in CrlCacheResults :
            LET sw == isvalid_switch(a, did_inquire) IN
            /\ log' = Append(log, PatEv("crl_cache_isvalid", a,
                               isvalid_ids(issuerhash, serialno, linebuf)))
            /\ CASE sw.next = "leave"   -> leave_cmd(sw.err)
                 [] sw.next = "inquire" -> pc' = "isvalid_inquire"
                                           /\ result' = result
                 [] OTHER               -> pc' = "fatal" /\ result' = result
  /\ UNCHANGED <<cmd, line, flags, locals, config, request, session>>

\* inquire_cert_and_load_crl, called from the DONTKNOW case
inquire_cert_and_load_crl ==
  /\ pc = "isvalid_inquire"
  /\ \E o \in InquireOutcomes, e \in ReloadResults, buf \in InquiryLines :
       LET log1 == Append(log, [InquireEv("SENDCERT", o, 0)
                                  EXCEPT !.pat = buf])
           c    == cert_init_from_mem(o.payload)
       IN
       IF o.rc # "OK"
       THEN log' = log1 /\ leave_cmd(o.rc) /\ did_inquire' = did_inquire
       ELSE IF valuelen(o.payload) = 0
       THEN log' = log1 /\ leave_cmd("MISSING_CERT")
            /\ did_inquire' = did_inquire
       ELSE IF c.err # "OK"
       THEN log' = log1 /\ leave_cmd(c.err) /\ did_inquire' = did_inquire
       ELSE /\ log' = Append(log1, Ev("crl_cache_reload_crl", "", e,
                                      c.cert.fpr, 0))
            /\ IF e # "OK"
               THEN leave_cmd(e) /\ did_inquire' = did_inquire
               ELSE /\ did_inquire' = 1
                    /\ pc' = "isvalid_again"
                    /\ result' = result
  /\ UNCHANGED <<cmd, line, flags, ocsp_mode, issuerhash, serialno, cert,
                 certlist, value, config, request, session>>

----------------------------------------------------------------------------
(* Fingerprint argument and the TARGETCERT fallback *)

\* the loop of get_fingerprint_from_line; s is the read position, fpr the
\* bytes decoded so far; NoFpr is the NULL result
RECURSIVE fingerprint_loop(_, _, _)
fingerprint_loop(l, s, fpr) ==
  IF CharAt(l, s) \in {"NUL", " "}
  THEN IF Len(fpr) # FPR_LEN THEN NoFpr ELSE fpr
  ELSE IF hexdigitp(l, s) /\ hexdigitp(l, s + 1)
  THEN IF Len(fpr) >= FPR_LEN THEN NoFpr
       ELSE fingerprint_loop(l, s + 2, Append(fpr, xtoi_2(l, s)))
  ELSE IF CharAt(l, s) # ":" THEN NoFpr
  ELSE fingerprint_loop(l, s + 1, fpr)

get_fingerprint_from_line_mut(l) ==
  LET fpr == fingerprint_loop(l, 1, <<>>) IN
  [i \in DOMAIN fpr |-> fpr[Len(fpr) + 1 - i]]

get_fingerprint_from_line(l) == fingerprint_loop(l, 1, <<>>)

\* twenty different pairs
Hex40 ==
  <<"0", "1", "2", "3", "4", "5", "6", "7", "8", "9",
    "a", "b", "c", "d", "e", "f", "A", "B", "C", "D",
    "E", "F", "0", "0", "f", "F", "1", "0", "7", "f",
    "8", "0", "9", "A", "b", "C", "d", "E", "F", "e">>

\* the usual rendering: a colon after every pair but the last
Hex40Colons ==
  [i \in 1..(3 * FPR_LEN - 1) |->
     IF i % 3 = 0 THEN ":" ELSE Hex40[2 * ((i - 1) \div 3) + 1 + ((i - 1) % 3)]]

FprLines ==
  { <<>>,
    Hex40,
    Hex40Colons \o <<" ", "x">>,
    RepSeq(<<"A", "A">>, FPR_LEN),
    RepSeq(<<"a", "A", ":">>, FPR_LEN - 1) \o <<"A", "a">>,
    RepSeq(<<"1", "B">>, FPR_LEN),
    RepSeq(<<"A", "A">>, FPR_LEN - 1),
    RepSeq(<<"A", "A">>, FPR_LEN + 1),
    RepSeq(<<"A", "A">>, FPR_LEN) \o <<" ", "z">>,
    RepSeq(<<"A", "A">>, FPR_LEN) \o <<"A">>,
    RepSeq(<<"A", "A">>, FPR_LEN - 1) \o <<"A", "z">> }

\* get_cert_byfpr of the certificate cache
get_cert_byfpr(fpr) ==
  IF fpr \in certcache THEN [src |-> "cache", fpr |-> fpr] ELSE NoCert

\* cert = fpr ? get_cert_byfpr (fpr) : NULL
cert_from_line_mut(l) ==
  LET fpr == get_fingerprint_from_line(l) IN
  [fpr |-> fpr,
   cert |-> IF fpr = NoFpr THEN NoCert ELSE [src |-> "cache", fpr |-> fpr]]

cert_from_line(l) ==
  LET fpr == get_fingerprint_from_line(l) IN
  [fpr |-> fpr, cert |-> IF fpr = NoFpr THEN NoCert ELSE get_cert_byfpr(fpr)]

LookupLog(r) ==
  IF r.fpr = NoFpr THEN <<>>
  ELSE <<Ev("get_cert_byfpr", "", r.cert.src, r.fpr, 0)>>

\* what the handlers make of the outcome of a single-certificate inquiry
targetcert_value_mut_empty(o) ==
  IF o.rc # "OK" THEN [err |-> o.rc, cert |-> NoCert]
  ELSE IF valuelen(o.payload) = 0 THEN [err |-> "NO_DATA", cert |-> NoCert]
  ELSE cert_init_from_mem(o.payload)

targetcert_value(o) ==
  IF o.rc # "OK" THEN [err |-> o.rc, cert |-> NoCert]
  ELSE IF valuelen(o.payload) = 0
  THEN [err |-> "MISSING_CERT", cert |-> NoCert]
  ELSE cert_init_from_mem(o.payload)

----------------------------------------------------------------------------
(* CHECKCRL *)

cmd_checkcrl ==
  /\ pc = "idle"
  /\ \E l \in FprLines :
       LET r == cert_from_line(l) IN
       /\ cmd' = "CHECKCRL" /\ line' = l /\ flags' = {}
       /\ log' = LookupLog(r)
       /\ cert' = r.cert
       /\ pc' = IF r.cert = NoCert THEN "checkcrl_inquire"
                ELSE "checkcrl_isvalid"
  /\ UNCHANGED <<did_inquire, ocsp_mode, issuerhash, serialno, certlist,
                 value, result, config, request, session>>

\* the if (!cert) block of cmd_checkcrl
checkcrl_inquire ==
  /\ pc = "checkcrl_inquire"
  /\ \E o \in InquireOutcomes :
       LET r == targetcert_value(o) IN
       /\ log' = Append(log, InquireEv("TARGETCERT", o, MAX_CERT_LENGTH))
       /\ value' = o.payload
       /\ cert' = r.cert
       /\ IF r.err # "OK" THEN leave_cmd(r.err)
          ELSE pc' = "checkcrl_isvalid" /\ result' = result
  /\ UNCHANGED <<cmd, line, flags, did_inquire, ocsp_mode, issuerhash,
                 serialno, certlist, config, request, session>>

\* err == GPG_ERR_NO_CRL_KNOWN after the first crl_cache_cert_isvalid
checkcrl_reload_mut(e) == e # "OK"

checkcrl_reload(e) == e = "NO_CRL_KNOWN"

\* if (!err) after crl_cache_reload_crl
checkcrl_recheck(e) == e = "OK"

\* the validation, reload and second validation of cmd_checkcrl
checkcrl_isvalid ==
  /\ pc = "checkcrl_isvalid"
  /\ \E e1 \in CrlCertResults, e2 \in ReloadResults, e3 \in CrlCertResults :
       LET ev1 == Ev("crl_cache_cert_isvalid", cert.src, e1, cert.fpr, 0)
           ev2 == Ev("crl_cache_reload_crl", cert.src, e2, cert.fpr, 0)
           ev3 == Ev("crl_cache_cert_isvalid", cert.src, e3, cert.fpr, 0)
       IN
       IF ~checkcrl_reload(e1)
       THEN log' = Append(log, ev1) /\ leave_cmd(e1)
       ELSE IF ~checkcrl_recheck(e2)
       THEN log' = log \o <<ev1, ev2>> /\ leave_cmd(e2)
       ELSE log' = log \o <<ev1, ev2, ev3>> /\ leave_cmd(e3)
  /\ UNCHANGED <<cmd, line, flags, locals, config, request, session>>

----------------------------------------------------------------------------
(* CHECKOCSP *)

cmd_checkocsp ==
  /\ pc = "idle"
  /\ \E l \in FprLines, fdr \in BOOLEAN :
       LET r == cert_from_line(l) IN
       /\ cmd' = "CHECKOCSP" /\ line' = l
       /\ flags' = IF fdr THEN {"--force-default-responder"} ELSE {}
       /\ log' = LookupLog(r)
       /\ cert' = r.cert
       /\ pc' = IF r.cert = NoCert THEN "checkocsp_inquire"
                ELSE "checkocsp_isvalid"
  /\ UNCHANGED <<did_inquire, ocsp_mode, issuerhash, serialno, certlist,
                 value, result, config, request, session>>

\* the if (!cert) block of cmd_checkocsp
checkocsp_inquire ==
  /\ pc = "checkocsp_inquire"
  /\ \E o \in InquireOutcomes :
       LET r == targetcert_value(o) IN
       /\ log' = Append(log, InquireEv("TARGETCERT", o, MAX_CERT_LENGTH))
       /\ value' = o.payload
       /\ cert' = r.cert
       /\ IF r.err # "OK" THEN leave_cmd(r.err)
          ELSE pc' = "checkocsp_isvalid" /\ result' = result
  /\ UNCHANGED <<cmd, line, flags, did_inquire, ocsp_mode, issuerhash,
                 serialno, certlist, config, request, session>>

\* if (!opt.allow_ocsp) ... else ocsp_isvalid of cmd_checkocsp
checkocsp_ocsp_mut(allow, e) == [called |-> TRUE, err |-> "NOT_SUPPORTED"]

checkocsp_ocsp(allow, e) ==
  IF ~allow
  THEN [called |-> FALSE, err |-> "NOT_SUPPORTED"]
  ELSE [called |-> TRUE, err |-> e]

checkocsp_isvalid ==
  /\ pc = "checkocsp_isvalid"
  /\ \E e \in OcspResults :
       LET o == checkocsp_ocsp(allow_ocsp, e) IN
       /\ log' = IF o.called
                 THEN Append(log, Ev("ocsp_isvalid", cert.src, e, cert.fpr, 0))
                 ELSE log
       /\ leave_cmd(o.err)
  /\ UNCHANGED <<cmd, line, flags, locals, config, request, session>>

----------------------------------------------------------------------------
(* CACHECERT *)

CacheCertResults == {"OK", "GENERAL"}
ValidateResults  == {"OK", "NOT_TRUSTED", "CERT_REVOKED"}

cmd_cachecert ==
  /\ pc = "idle"
  /\ \E o \in InquireOutcomes, e \in CacheCertResults :
       LET r    == targetcert_value(o)
           log1 == <<InquireEv("TARGETCERT", o, MAX_CERT_LENGTH)>>
       IN
       /\ cmd' = "CACHECERT" /\ line' = <<>> /\ flags' = {}
       /\ value' = o.payload
       /\ cert' = r.cert
       /\ IF r.err # "OK"
          THEN log' = log1 /\ leave_cmd(r.err) /\ certcache' = certcache
          ELSE /\ log' = Append(log1, Ev("cache_cert", r.cert.src, e,
                                         r.cert.fpr, 0))
               /\ leave_cmd(e)
               /\ certcache' = IF e = "OK" THEN certcache \cup {r.cert.fpr}
                               ELSE certcache
  /\ UNCHANGED <<did_inquire, ocsp_mode, issuerhash, serialno, certlist,
                 config, request, keyservers, seeded>>

----------------------------------------------------------------------------
(* VALIDATE *)

\* what cmd_validate makes of the inquired value: the error, the target
\* certificate and the certlist
validate_value(tls, o) ==
  IF o.rc # "OK" THEN [err |-> o.rc, cert |-> NoCert, certlist |-> <<>>]
  ELSE IF valuelen(o.payload) = 0
  THEN [err |-> "MISSING_CERT", cert |-> NoCert, certlist |-> <<>>]
  ELSE IF tls
  THEN IF o.payload.kind # "good"
       THEN [err |-> "BAD_PEM", cert |-> NoCert, certlist |-> <<>>]
       ELSE IF o.payload.certs = <<>>
       THEN [err |-> "MISSING_CERT", cert |-> NoCert, certlist |-> <<>>]
       ELSE [err |-> "OK",
             cert |-> [src |-> "peer", fpr |-> o.payload.certs[1]],
             certlist |-> o.payload.certs]
  ELSE [err |-> cert_init_from_mem(o.payload).err,
        cert |-> cert_init_from_mem(o.payload).cert, certlist |-> <<>>]

ValidateFlags == SUBSET {"--systrust", "--tls", "--no-crl"}

cmd_validate ==
  /\ pc = "idle"
  /\ \E f \in ValidateFlags, o \in InquireOutcomes, e \in ValidateResults,
        added \in SUBSET Fprs :
       LET tls    == "--tls" \in f
           r      == validate_value(tls, o)
           log1   == <<IF tls
                       THEN InquireEv("CERTLIST", o, MAX_CERTLIST_LENGTH)
                       ELSE InquireEv("TARGETCERT", o, MAX_CERT_LENGTH)>>
           tmp    == get_cert_byfpr(r.cert.fpr)
           c      == IF ~tls /\ tmp # NoCert THEN tmp ELSE r.cert
           extras == {r.certlist[i] : i \in 2..Len(r.certlist)}
           log2   == IF tls THEN log1
                     ELSE Append(log1, Ev("get_cert_byfpr", "", tmp.src,
                                          r.cert.fpr, 0))
           log3   == log2 \o [i \in 1..(IF tls THEN Len(r.certlist) - 1 ELSE 0)
                               |-> Ev("cache_cert", "peer",
                                      IF r.certlist[i + 1] \in added
                                      THEN "OK" ELSE "GENERAL",
                                      r.certlist[i + 1], 0)]
       IN
       /\ added \subseteq extras
       /\ r.err # "OK" => added = {} /\ e = "OK"
       /\ cmd' = "VALIDATE" /\ line' = <<>> /\ flags' = f
       /\ value' = o.payload
       /\ IF r.err # "OK"
          THEN /\ log' = log1 /\ leave_cmd(r.err)
               /\ cert' = r.cert /\ certlist' = r.certlist
               /\ certcache' = certcache
          ELSE /\ cert' = c /\ certlist' = r.certlist
               /\ certcache' = certcache \cup added
               /\ log' = Append(log3, Ev("validate_cert_chain", c.src, e,
                                         c.fpr, 0))
               /\ leave_cmd(e)
  /\ UNCHANGED <<did_inquire, ocsp_mode, issuerhash, serialno, config, request,
                 keyservers, seeded>>

----------------------------------------------------------------------------
(* Keyserver registry *)

DIRMNGR_DEFAULT_KEYSERVER == "hkps://default"
BadUri   == "bad uri"
Uris     == {"hkp://a", "hkp://b", BadUri}
Configs  == UNION {[1..n -> Uris] : n \in 0..MaxCfg}

\* http_parse_uri
http_parse_uri(uri) == IF uri = BadUri THEN "INV_URI" ELSE "OK"

make_keyserver_item_mut(uri) == [err |-> "OK", item |-> uri]

\* make_keyserver_item: the error of the URI parser and the item built
make_keyserver_item(uri) == [err |-> http_parse_uri(uri), item |-> uri]

\* the loop over opt.keyserver of ensure_keyserver
RECURSIVE ensure_keyserver_loop(_, _, _)
ensure_keyserver_loop(cfg, i, ks) ==
  IF i > Len(cfg) THEN [err |-> "OK", keyservers |-> ks]
  ELSE LET m == make_keyserver_item(cfg[i]) IN
       IF m.err # "OK" THEN [err |-> m.err, keyservers |-> ks]
       ELSE ensure_keyserver_loop(cfg, i + 1, <<m.item>> \o ks)

ensure_keyserver_mut_default(ks, cfg) ==
  IF ks # <<>>
  THEN [err |-> "OK",
        keyservers |-> IF \E i \in DOMAIN ks : ks[i] = DIRMNGR_DEFAULT_KEYSERVER
                       THEN ks ELSE ks \o <<DIRMNGR_DEFAULT_KEYSERVER>>]
  ELSE ensure_keyserver_loop(cfg, 1, ks)

ensure_keyserver_mut_reseed(ks, cfg) == ensure_keyserver_loop(cfg, 1, <<>>)

ensure_keyserver(ks, cfg) ==
  IF ks # <<>> THEN [err |-> "OK", keyservers |-> ks]
  ELSE IF cfg = <<>>
  THEN LET m == make_keyserver_item(DIRMNGR_DEFAULT_KEYSERVER) IN
       [err |-> m.err,
        keyservers |-> IF m.err = "OK" THEN <<m.item>> ELSE <<>>]
  ELSE ensure_keyserver_loop(cfg, 1, ks)

\* the history of the session after a call of ensure_keyserver: the call
\* has put entries into the empty list, or an earlier one had
ensure_keyserver_seeded(ks, ek) ==
  seeded \/ (ks = <<>> /\ ek.keyservers # <<>>)

----------------------------------------------------------------------------
(* KS_PUT *)

KsResults == {"OK", "NO_KEYSERVER", "GENERAL"}

\* if (!valuelen) after the KEYBLOCK inquiry
ks_put_no_keyblock_mut(p) == FALSE

ks_put_no_keyblock(p) == valuelen(p) = 0

\* if (err) after an inquiry of cmd_ks_put
ks_put_inquire_failed_mut(o) == o.rc = "ASS_CANCELED"

ks_put_inquire_failed(o) == o.rc # "OK"

cmd_ks_put ==
  /\ pc = "idle"
  /\ \E o1 \in InquireOutcomes, o2 \in InquireOutcomes, e \in KsResults :
       LET ek   == ensure_keyserver(keyservers, opt_keyserver)
           log1 == <<InquireEv("KEYBLOCK", o1, MAX_KEYBLOCK_LENGTH)>>
           log2 == Append(log1,
                          InquireEv("KEYBLOCK_INFO", o2, MAX_KEYBLOCK_LENGTH))
           log3 == Append(log2, KsEv("ks_action_put", e, ek.keyservers))
       IN
       /\ cmd' = "KS_PUT" /\ line' = <<>> /\ flags' = {}
       /\ keyservers' = ek.keyservers
       /\ seeded' = ensure_keyserver_seeded(keyservers, ek)
       /\ IF ek.err # "OK"
          THEN log' = <<>> /\ leave_cmd(ek.err) /\ value' = value
          ELSE IF ks_put_inquire_failed(o1)
          THEN log' = log1 /\ leave_cmd(o1.rc) /\ value' = o1.payload
          ELSE IF ks_put_no_keyblock(o1.payload)
          THEN log' = log1 /\ leave_cmd("MISSING_CERT")
               /\ value' = o1.payload
          ELSE IF ks_put_inquire_failed(o2)
          THEN log' = log2 /\ leave_cmd(o2.rc) /\ value' = o1.payload
          ELSE log' = log3 /\ leave_cmd(e) /\ value' = o1.payload
  /\ UNCHANGED <<did_inquire, ocsp_mode, issuerhash, serialno, cert,
                 certlist, config, request, certcache>>

----------------------------------------------------------------------------
(* Percent-plus escaped pattern lists *)

\* strcpy_escaped_plus: the bytes written to d before the closing NUL
RECURSIVE strcpy_escaped_plus_from(_, _)
strcpy_escaped_plus_from(s, i) ==
  IF i > Len(s) THEN <<>>
  ELSE IF s[i] = "%" /\ CharAt(s, i + 1) # "NUL" /\ CharAt(s, i + 2) # "NUL"
  THEN <<xtoi_2(s, i + 1) % 256>> \o strcpy_escaped_plus_from(s, i + 3)
  ELSE IF s[i] = "+"
  THEN <<32>> \o strcpy_escaped_plus_from(s, i + 1)
  ELSE <<Ord(s[i])>> \o strcpy_escaped_plus_from(s, i + 1)

strcpy_escaped_plus_mut(s) == <<Ord("%")>> \o strcpy_escaped_plus_from(s, 1)

strcpy_escaped_plus(s) == strcpy_escaped_plus_from(s, 1)

\* the C string held by a buffer: the bytes before the first NUL
c_str(d) ==
  IF \E i \in DOMAIN d : d[i] = 0
  THEN SubSeq(d, 1, (CHOOSE i \in DOMAIN d :
                       d[i] = 0 /\ \A j \in 1..(i - 1) : d[j] # 0) - 1)
  ELSE d

\* the loop breaking a line at its spaces; empty pieces are skipped
RECURSIVE break_line(_, _, _)
break_line(s, i, piece) ==
  LET done == IF piece = <<>> THEN <<>> ELSE <<piece>> IN
  IF i > Len(s) THEN done
  ELSE IF s[i] = " " THEN done \o break_line(s, i + 1, <<>>)
  ELSE break_line(s, i + 1, Append(piece, s[i]))

\* the list of decoded patterns a handler builds from its line
pattern_list(ln) ==
  LET pieces == break_line(ln, 1, <<>>) IN
  [k \in DOMAIN pieces |-> c_str(strcpy_escaped_plus(pieces[k]))]

\* the tokens a command hands to the decoder: LOADCRL its whole line, the
\* others each piece of the line
decoder_tokens(c, ln) ==
  IF c = "LOADCRL" THEN <<ln>> ELSE break_line(ln, 1, <<>>)

\* the size of the buffer the caller allocates for a token: strlen(line) + 1
\* in cmd_loadcrl, strlen(line) in lookup_cert_by_pattern, cmd_ks_search and
\* cmd_ks_get
decoder_buffer(c, token) ==
  IF c = "LOADCRL" THEN Len(token) + 1 ELSE Len(token)

\* the bytes strcpy_escaped_plus writes to d, the closing NUL included
decoder_written(token) == Len(strcpy_escaped_plus(token)) + 1

decoder_overflow(c, ln) ==
  \E k \in DOMAIN decoder_tokens(c, ln) :
    decoder_written(decoder_tokens(c, ln)[k])
      > decoder_buffer(c, decoder_tokens(c, ln)[k])

\* A token that does not fit has been written past the end of its heap
\* block: the command may go on as if nothing had happened, or the process
\* ends on the damaged heap before the handler has done anything else.
decoder_crash(c, ln, f) ==
  /\ decoder_overflow(c, ln)
  /\ cmd' = c /\ line' = ln /\ flags' = f
  /\ log' = <<>> /\ result' = result
  /\ pc' = "fatal"
  /\ UNCHANGED <<keyservers, seeded>>

PatternLines ==
  { <<>>,
    <<"a">>,
    <<"a", " ", "b">>,
    <<"a", "+", "b", " ", " ", "%", "4", "1">> }

\* every token of up to MaxToken characters that matter to the decoder
MaxToken == 3

EscapeChars == {"%", "+", "0", "1", "4", "a", "z"}

Tokens == UNION {[1..n -> EscapeChars] : n \in 1..MaxToken}

LookupLines ==
  PatternLines \cup Tokens \cup {<<"%", "4", "1", "%", "4", "2">>}

SendResults == {"OK", "ASS_WRITE_ERROR"}

----------------------------------------------------------------------------
(* KEYSERVER *)

MaxKeyservers == 2   \* an add is explored while the registry is shorter

release_ctrl_keyservers_mut(ks) == IF ks = <<>> THEN <<>> ELSE <<Head(ks)>>

\* release_ctrl_keyservers: the whole list is freed
release_ctrl_keyservers(ks) == <<>>

RECURSIVE keyserver_status_lines_mut(_)
keyserver_status_lines_mut(ks) ==
  IF ks = <<>> THEN <<>>
  ELSE keyserver_status_lines_mut(Tail(ks))
       \o <<Ev("dirmngr_status", "KEYSERVER", Head(ks), NoFpr, 0)>>

\* the status lines of the listing loop, front of the list first
RECURSIVE keyserver_status_lines(_)
keyserver_status_lines(ks) ==
  IF ks = <<>> THEN <<>>
  ELSE <<Ev("dirmngr_status", "KEYSERVER", Head(ks), NoFpr, 0)>>
       \o keyserver_status_lines(Tail(ks))

\* the item is linked in front of the list
keyserver_push(item, ks) == <<item>> \o ks

keyserver_update_mut(ks, clear_flag, add_flag, item) ==
  LET cleared == IF clear_flag THEN release_ctrl_keyservers_mut(ks) ELSE ks IN
  IF add_flag THEN <<item>> \o cleared ELSE cleared

\* the registry after the clear and add steps of a command whose URI, if
\* any, was parsed into item
keyserver_update(ks, clear_flag, add_flag, item) ==
  LET cleared == IF clear_flag THEN release_ctrl_keyservers(ks) ELSE ks IN
  IF add_flag THEN keyserver_push(item, cleared) ELSE cleared

HelpResults == {"OK", "GENERAL"}

keyserver_add_failed_mut(add_flag, err) == FALSE

\* the add is given up before anything is cleared or linked
keyserver_add_failed(add_flag, err) == add_flag /\ err # "OK"

\* the line of a KEYSERVER command is its URI, taken as one symbol
cmd_keyserver ==
  /\ pc = "idle"
  /\ \E clear_flag \in BOOLEAN, help_flag \in BOOLEAN,
        ln \in {<<>>} \cup {<<u>> : u \in Uris}, h \in HelpResults :
       LET add_flag == ln # <<>>
           m  == make_keyserver_item(IF add_flag THEN ln[1] ELSE "")
           ek == ensure_keyserver(keyservers, opt_keyserver)
       IN
       /\ add_flag /\ ~help_flag
            => Len(IF clear_flag THEN <<>> ELSE keyservers) < MaxKeyservers
       /\ cmd' = "KEYSERVER" /\ line' = ln
       /\ flags' = (IF clear_flag THEN {"--clear"} ELSE {})
                   \cup (IF help_flag THEN {"--help"} ELSE {})
       /\ IF help_flag
          THEN /\ log' = <<KsEv("ks_action_help", h, <<>>)>>
               /\ keyservers' = keyservers /\ seeded' = seeded
               /\ leave_cmd(h)
          ELSE IF keyserver_add_failed(add_flag, m.err)
          THEN /\ log' = <<>>
               /\ keyservers' = keyservers /\ seeded' = seeded
               /\ leave_cmd(m.err)
          ELSE IF add_flag \/ clear_flag
          THEN /\ log' = <<>>
               /\ keyservers' =
                    keyserver_update(keyservers, clear_flag, add_flag, m.item)
               /\ seeded' = seeded
               /\ leave_cmd("OK")
          ELSE IF ek.err # "OK"
          THEN /\ log' = <<>>
               /\ keyservers' = ek.keyservers
               /\ seeded' = ensure_keyserver_seeded(keyservers, ek)
               /\ leave_cmd(ek.err)
          ELSE /\ log' = keyserver_status_lines(ek.keyservers)
               /\ keyservers' = ek.keyservers
               /\ seeded' = ensure_keyserver_seeded(keyservers, ek)
               /\ leave_cmd("OK")
  /\ UNCHANGED <<locals, config, request, certcache>>

----------------------------------------------------------------------------
(* KS_SEARCH, KS_GET, KS_FETCH *)

\* the two assuan_send_data calls that return the output
send_output(s1, s2) == IF s1 # "OK" THEN s1 ELSE s2

cmd_ks_search ==
  /\ pc = "idle"
  /\ \E ln \in PatternLines, e \in KsResults,
        s1 \in SendResults, s2 \in SendResults :
       LET ek == ensure_keyserver(keyservers, opt_keyserver) IN
       \/ /\ cmd' = "KS_SEARCH" /\ line' = ln /\ flags' = {}
          /\ keyservers' = ek.keyservers
          /\ seeded' = ensure_keyserver_seeded(keyservers, ek)
          /\ IF ek.err # "OK"
             THEN log' = <<>> /\ leave_cmd(ek.err)
             ELSE /\ log' = <<KsPatEv("ks_action_search", e, ek.keyservers,
                                      pattern_list(ln))>>
                  /\ leave_cmd(send_output(s1, s2))
       \/ decoder_crash("KS_SEARCH", ln, {})
  /\ UNCHANGED <<locals, config, request, certcache>>

\* the result of ensure_keyserver is reported but the handler goes on
cmd_ks_get ==
  /\ pc = "idle"
  /\ \E ln \in PatternLines, e \in KsResults,
        s1 \in SendResults, s2 \in SendResults :
       LET ek == ensure_keyserver(keyservers, opt_keyserver) IN
       \/ /\ cmd' = "KS_GET" /\ line' = ln /\ flags' = {}
          /\ keyservers' = ek.keyservers
          /\ seeded' = ensure_keyserver_seeded(keyservers, ek)
          /\ log' = <<KsPatEv("ks_action_get", e, ek.keyservers,
                              pattern_list(ln))>>
          /\ IF e # "OK"
             THEN leave_cmd(e)
             ELSE leave_cmd(send_output(s1, s2))
       \/ decoder_crash("KS_GET", ln, {})
  /\ UNCHANGED <<locals, config, request, certcache>>

\* the line of a KS_FETCH command is its URL, taken as one symbol
cmd_ks_fetch ==
  /\ pc = "idle"
  /\ \E u \in Uris, e \in KsResults, s1 \in SendResults, s2 \in SendResults :
       LET ek == ensure_keyserver(keyservers, opt_keyserver) IN
       /\ cmd' = "KS_FETCH" /\ line' = <<u>> /\ flags' = {}
       /\ keyservers' = ek.keyservers
       /\ seeded' = ensure_keyserver_seeded(keyservers, ek)
       /\ IF ek.err # "OK"
          THEN log' = <<>> /\ leave_cmd(ek.err)
          ELSE /\ log' = <<KsEv("ks_action_fetch", e, <<>>)>>
               /\ leave_cmd(send_output(s1, s2))
  /\ UNCHANGED <<locals, config, request, certcache>>

----------------------------------------------------------------------------
(* OPTION and RESET *)

OptionKeys   == {"force-crl-refresh", "http-proxy", "http-crl", "no-such-key"}
OptionValues == {"", "1", "none"}

\* atoi on the option values: "1" is the only one starting with a digit
atoi(v) == IF v = "1" THEN 1 ELSE 0

option_int(v) == IF v # "" THEN atoi(v) ELSE 0

option_handler_mut(key, v, dup_ok) ==
  CASE key = "force-crl-refresh" ->
         [err |-> "OK", force_crl_refresh |-> option_int(v),
          http_proxy |-> "NULL", http_no_crl |-> http_no_crl]
    [] key = "http-proxy" ->
         [err |-> IF v = "" \/ v = "none" \/ dup_ok THEN "OK" ELSE "ENOMEM",
          force_crl_refresh |-> force_crl_refresh,
          http_proxy |-> IF v = "" \/ v = "none" \/ ~dup_ok
                         THEN "NULL" ELSE v,
          http_no_crl |-> http_no_crl]
    [] key = "http-crl" ->
         [err |-> "OK", force_crl_refresh |-> force_crl_refresh,
          http_proxy |-> http_proxy,
          http_no_crl |-> IF option_int(v) = 0 THEN 1 ELSE 0]
    [] OTHER ->
         [err |-> "UNKNOWN_OPTION", force_crl_refresh |-> force_crl_refresh,
          http_proxy |-> http_proxy, http_no_crl |-> http_no_crl]

\* dup_ok: xtrystrdup returned a copy of the value; when it did not, the
\* proxy stays unset and the error of the allocation is returned
option_handler(key, v, dup_ok) ==
  CASE key = "force-crl-refresh" ->
         [err |-> "OK", force_crl_refresh |-> option_int(v),
          http_proxy |-> http_proxy, http_no_crl |-> http_no_crl]
    [] key = "http-proxy" ->
         [err |-> IF v = "" \/ v = "none" \/ dup_ok THEN "OK" ELSE "ENOMEM",
          force_crl_refresh |-> force_crl_refresh,
          http_proxy |-> IF v = "" \/ v = "none" \/ ~dup_ok
                         THEN "NULL" ELSE v,
          http_no_crl |-> http_no_crl]
    [] key = "http-crl" ->
         [err |-> "OK", force_crl_refresh |-> force_crl_refresh,
          http_proxy |-> http_proxy,
          http_no_crl |-> IF option_int(v) = 0 THEN 1 ELSE 0]
    [] OTHER ->
         [err |-> "UNKNOWN_OPTION", force_crl_refresh |-> force_crl_refresh,
          http_proxy |-> http_proxy, http_no_crl |-> http_no_crl]

\* the line of an OPTION command is its key and its value, one symbol each
cmd_option ==
  /\ pc = "idle"
  /\ \E key \in OptionKeys, v \in OptionValues, dup_ok \in BOOLEAN :
       LET o == option_handler(key, v, dup_ok) IN
       /\ cmd' = "OPTION" /\ line' = <<key, v>> /\ flags' = {}
       /\ force_crl_refresh' = o.force_crl_refresh
       /\ http_proxy' = o.http_proxy
       /\ http_no_crl' = o.http_no_crl
       /\ log' = <<>>
       /\ leave_cmd(o.err)
  /\ UNCHANGED <<locals, config, session>>

\* RESET is answered by the transport library; no reset handler is
\* registered, so nothing of the session is touched
cmd_reset ==
  /\ pc = "idle"
  /\ cmd' = "RESET" /\ line' = <<>> /\ flags' = {}
  /\ log' = <<>>
  /\ leave_cmd("OK")
  /\ UNCHANGED <<locals, config, request, session>>

----------------------------------------------------------------------------
(* LOOKUP *)

\* the answers of get_certs_bypattern; TRUNCATED is the answer of a lookup
\* whose result set was capped, ASS_WRITE_ERROR a failure of return_one_cert
CertLookupResults ==
  {"OK", "NO_DATA", "INV_NAME", "TRUNCATED", "ASS_WRITE_ERROR"}

UrlResults == {"OK", "GENERAL", "ASS_WRITE_ERROR"}

lookup_pattern_err_mut(r, cache_only) ==
  IF r = "INV_NAME" /\ ~cache_only THEN "OK" ELSE r

\* err after the handling of one pattern's answer
lookup_pattern_err(r, cache_only) ==
  IF r = "NO_DATA" THEN "OK"
  ELSE IF r = "INV_NAME" /\ ~cache_only THEN "OK"
  ELSE r

lookup_any_no_data(r, cache_only, any_no_data) ==
  IF r = "NO_DATA" /\ cache_only THEN TRUE ELSE any_no_data

lookup_single_hit_mut(r, single) == FALSE

\* a match in single mode ends the loop
lookup_single_hit(r, single) == r = "OK" /\ single

\* the loop over the patterns, at pattern i
RECURSIVE lookup_loop(_, _, _, _, _, _)
lookup_loop(list, ans, i, single, cache_only, st) ==
  IF i > Len(list) THEN st
  ELSE LET r   == ans[i]
           lg  == Append(st.log, PatEv("get_certs_bypattern", r, list[i]))
           lc  == IF r = "OK" THEN st.local_count + 1 ELSE st.local_count
           err == lookup_pattern_err(r, cache_only)
           any == lookup_any_no_data(r, cache_only, st.any_no_data)
       IN
       IF lookup_single_hit(r, single)
       THEN [err |-> "OK", local_count |-> lc,
             any_no_data |-> st.any_no_data, log |-> lg]
       ELSE IF err # "OK"
       THEN [err |-> err, local_count |-> lc, any_no_data |-> any,
             log |-> lg]
       ELSE lookup_loop(list, ans, i + 1, single, cache_only,
                        [err |-> "OK", local_count |-> lc,
                         any_no_data |-> any, log |-> lg])

\* the error the lookup ends with, after the label ready
lookup_ready_err(err, count, local_count, any_no_data) ==
  IF err = "OK" /\ count = 0 /\ local_count = 0 /\ any_no_data
  THEN "NO_DATA" ELSE err

lookup_cert_by_pattern_mut(ln, single, cache_only, ans) ==
  LET list              == pattern_list(ln)
      truncated         == 0
      truncation_forced == 0
      count             == 0
      st0 == [err |-> "OK", local_count |-> 0, any_no_data |-> FALSE,
              log |-> <<>>]
      st  == lookup_loop(list, ans, 1, single, cache_only, st0)
      lg  == IF truncated # 0 \/ truncation_forced # 0
             THEN Append(st.log,
                         Ev("assuan_write_status", "TRUNCATED", "", NoFpr,
                            count))
             ELSE st.log
  IN [err |-> lookup_ready_err(st.err, count, st.local_count,
                               st.any_no_data),
      log |-> lg]

lookup_cert_by_pattern(ln, single, cache_only, ans) ==
  LET list              == pattern_list(ln)
      truncated         == 0
      truncation_forced == 0
      count             == 0
      st0 == [err |-> "OK", local_count |-> 0, any_no_data |-> FALSE,
              log |-> <<>>]
      st  == IF single /\ ~cache_only THEN st0
             ELSE lookup_loop(list, ans, 1, single, cache_only, st0)
      lg  == IF truncated # 0 \/ truncation_forced # 0
             THEN Append(st.log,
                         Ev("assuan_write_status", "TRUNCATED", "", NoFpr,
                            count))
             ELSE st.log
  IN [err |-> lookup_ready_err(st.err, count, st.local_count,
                               st.any_no_data),
      log |-> lg]

lookup_cert_by_url(u) ==
  [err |-> u, log |-> <<Ev("fetch_cert_by_url", "", u, NoFpr, 0)>>]

cmd_lookup ==
  /\ pc = "idle"
  /\ \E lookup_url \in BOOLEAN, single \in BOOLEAN, cache_only \in BOOLEAN,
        ln \in LookupLines, u \in UrlResults :
     \E ans \in [DOMAIN pattern_list(ln) -> CertLookupResults] :
       LET r == IF lookup_url /\ cache_only
                THEN [err |-> "NOT_FOUND", log |-> <<>>]
                ELSE IF lookup_url /\ single
                THEN [err |-> "NOT_IMPLEMENTED", log |-> <<>>]
                ELSE IF lookup_url
                THEN lookup_cert_by_url(u)
                ELSE lookup_cert_by_pattern(ln, single, cache_only, ans)
           f == (IF lookup_url THEN {"--url"} ELSE {})
                \cup (IF single THEN {"--single"} ELSE {})
                \cup (IF cache_only THEN {"--cache-only"} ELSE {})
       IN
       \/ /\ cmd' = "LOOKUP" /\ line' = ln /\ flags' = f
          /\ log' = r.log
          /\ leave_cmd(r.err)
       \/ ~lookup_url /\ decoder_crash("LOOKUP", ln, f)
  /\ UNCHANGED <<locals, config, request, session>>

----------------------------------------------------------------------------
(* LOADCRL, LISTCRLS, GETINFO *)

CrlLoadResults == {"OK", "GENERAL"}

cmd_loadcrl ==
  /\ pc = "idle"
  /\ \E use_url \in BOOLEAN, ln \in PatternLines \ {<<>>},
        f \in CrlLoadResults, e \in CrlLoadResults :
       /\ cmd' = "LOADCRL" /\ line' = ln
       /\ flags' = (IF use_url THEN {"--url"} ELSE {})
       /\ IF use_url
          THEN IF f # "OK"
               THEN /\ log' = <<Ev("crl_fetch", "", f, NoFpr, 0)>>
                    /\ leave_cmd(f)
               ELSE /\ log' = <<Ev("crl_fetch", "", f, NoFpr, 0),
                                Ev("crl_cache_insert", "", e, NoFpr, 0)>>
                    /\ leave_cmd(e)
          ELSE /\ log' = <<PatEv("crl_cache_load", e,
                                 c_str(strcpy_escaped_plus(ln)))>>
               /\ leave_cmd(e)
  /\ UNCHANGED <<locals, config, request, session>>

\* the result of crl_cache_list is reported but the handler goes on
cmd_listcrls ==
  /\ pc = "idle"
  /\ \E e \in CrlLoadResults, s1 \in SendResults, s2 \in SendResults :
       /\ cmd' = "LISTCRLS" /\ line' = <<>> /\ flags' = {}
       /\ log' = <<Ev("crl_cache_list", "", e, NoFpr, 0)>>
       /\ leave_cmd(send_output(s1, s2))
  /\ UNCHANGED <<locals, config, request, session>>

\* the line of a GETINFO command is its WHAT, taken as one symbol
cmd_getinfo ==
  /\ pc = "idle"
  /\ \E what \in {"version", "pid", "tor"}, s \in SendResults :
       /\ cmd' = "GETINFO" /\ line' = <<what>> /\ flags' = {}
       /\ log' = <<>>
       /\ IF what \in {"version", "pid"}
          THEN leave_cmd(s)
          ELSE leave_cmd("ASS_PARAMETER")
  /\ UNCHANGED <<locals, config, request, session>>

----------------------------------------------------------------------------
(* The connection *)

\* assuan_process returns when the line it waits for does not come because
\* the peer has closed the connection; the pipe
\* server accepts no second connection, the accept loop is left and the
\* session is torn down
connection_end ==
  /\ pc = "idle"
  /\ pc' = "closed"
  /\ keyservers' = release_ctrl_keyservers(keyservers)
  /\ UNCHANGED <<cmd, line, flags, locals, log, result, config, request,
                 certcache, seeded>>

----------------------------------------------------------------------------
(* Callbacks: functions of this file that the validators and the caches call
   while a command runs.  The command around the call is not part of these
   actions; a callback starts with the server between two of its own steps
   and ends with its return value in result. *)

MaxBody == 2

TrustChars  == {"1", "0", " ", "\t", "x"}
TrustBodies == UNION {[1..n -> TrustChars] : n \in 0..MaxBody}

spacep(c) == c \in {" ", "\t"}

\* the inquiry ISTRUSTED <hexfpr> of get_istrusted_from_client, with the
\* data the peer answered
IstrustedEv(fpr, rc, v) ==
  [call |-> "assuan_inquire", arg |-> "ISTRUSTED", ret |-> rc, fpr |-> fpr,
   max |-> 100, kind |-> "data", ks |-> <<>>, pat |-> v]

istrusted_response_mut(v) ==
  IF Len(v) > 0 /\ v[1] = "1" THEN "OK" ELSE "NOT_TRUSTED"

\* the expected data is "1" or "1 cruft" (not a C string)
istrusted_response(v) ==
  IF Len(v) > 0 /\ v[1] = "1" /\ (Len(v) = 1 \/ spacep(v[2]))
  THEN "OK" ELSE "NOT_TRUSTED"

get_istrusted_from_client ==
  /\ pc = "idle"
  /\ \E ctx_ok \in BOOLEAN, hexfpr \in Fprs,
        rc \in {"OK"} \cup TransportErrors, v \in TrustBodies :
       /\ rc # "OK" => v = <<>>
       /\ IF ~ctx_ok
          THEN log' = <<>> /\ result' = "INV_ARG"
          ELSE /\ log' = <<IstrustedEv(hexfpr, rc, v)>>
               /\ result' = IF rc # "OK" THEN rc ELSE istrusted_response(v)
  /\ pc' = "done"
  /\ UNCHANGED <<cmd, line, flags, locals, config, request, session>>

\* dirmngr_status: char buf[950]
DIM_buf == 950

MaxFrags == 3

\* the string arguments after the keyword: empty, short, just below, at and
\* beyond what the copy loop lets through
StatusFragments ==
  {<<>>, <<"a">>, Rep("b", DIM_buf - 3), Rep("c", DIM_buf - 2),
   Rep("d", DIM_buf + 50)}

StatusArgs == UNION {[1..k -> StatusFragments] : k \in 0..MaxFrags}

\* for (; *text && n < DIM(buf) - 2; n++) *p++ = *text++;
\* the number of passes of the loop
status_copied(text, n) ==
  IF n >= DIM_buf - 2 THEN 0
  ELSE IF Len(text) <= DIM_buf - 2 - n THEN Len(text)
  ELSE DIM_buf - 2 - n

\* the while loop over the arguments; out holds the bytes written through p
\* so far, n is the counter of the code
RECURSIVE status_loop(_, _, _)
status_loop(args, n, out) ==
  IF args = <<>> THEN out
  ELSE LET sep  == n # 0
           n1   == IF sep THEN n + 1 ELSE n
           out1 == IF sep THEN Append(out, " ") ELSE out
           k    == status_copied(Head(args), n1)
       IN  status_loop(Tail(args), n1 + k,
                       out1 \o SubSeq(Head(args), 1, k))

\* the status line handed to assuan_write_status: the arguments it was made
\* of, the bytes written into buf before the terminator, and the number of
\* bytes written through p, the terminator included
StatusEv(keyword, args, text, ret) ==
  [call |-> "assuan_write_status", arg |-> keyword, ret |-> ret,
   fpr |-> NoFpr, max |-> 0, kind |-> "", ks |-> <<>>, pat |-> args,
   text |-> text, written |-> Len(text) + 1]

\* A line that does not fit has been written past the end of buf, which is
\* an automatic array: the call may return anything or not return at all.
dirmngr_status ==
  /\ pc = "idle"
  /\ \E server_local \in BOOLEAN, args \in StatusArgs, e \in SendResults :
       LET text == status_loop(args, 0, <<>>) IN
       IF ~server_local
       THEN log' = <<>> /\ result' = "OK" /\ pc' = "done"
       ELSE /\ log' = <<StatusEv("KEYSERVER", args, text, e)>>
            /\ result' = e
            /\ IF Len(text) + 1 > DIM_buf
               THEN pc' \in {"done", "fatal"}
               ELSE pc' = "done"
  /\ UNCHANGED <<cmd, line, flags, locals, config, request, session>>

----------------------------------------------------------------------------
Init ==
  /\ pc = "idle" /\ cmd = "none" /\ line = <<>> /\ flags = {}
  /\ InitLocals
  /\ log = <<>> /\ result = "none"
  /\ allow_ocsp \in BOOLEAN
  /\ opt_keyserver \in Configs
  /\ keyservers = <<>> /\ seeded = FALSE
  /\ certcache \in SUBSET Fprs
  /\ force_crl_refresh = 0 /\ http_proxy = "NULL" /\ http_no_crl = 0

\* the command loop of assuan_process: the handler has returned, the result
\* is reported to the peer and the next line is awaited
assuan_process ==
  /\ pc = "done"
  /\ pc' = "idle"
  /\ cmd' = "none" /\ line' = <<>> /\ flags' = {}
  /\ ResetLocals
  /\ log' = <<>> /\ result' = "none"
  /\ UNCHANGED <<config, request, session>>

Next ==
  \/ assuan_process
  \/ cmd_isvalid
  \/ isvalid_again
  \/ inquire_cert_and_load_crl
  \/ cmd_checkcrl
  \/ checkcrl_inquire
  \/ checkcrl_isvalid
  \/ cmd_checkocsp
  \/ checkocsp_inquire
  \/ checkocsp_isvalid
  \/ cmd_cachecert
  \/ cmd_validate
  \/ cmd_ks_put

Spec == Init /\ [][Next]_vars

\* The session of one connection: the keyserver registry, the request
\* settings and the commands that work on them or on no state at all.  The
\* OCSP switch and the certificate cache are not read by these commands;
\* they start at one value.
InitSession == Init /\ allow_ocsp /\ certcache = {}

NextSession ==
  \/ assuan_process
  \/ cmd_keyserver
  \/ cmd_ks_search
  \/ cmd_ks_get
  \/ cmd_ks_fetch
  \/ cmd_ks_put
  \/ cmd_option
  \/ cmd_reset
  \/ cmd_loadcrl
  \/ cmd_listcrls
  \/ cmd_getinfo
  \/ connection_end

SpecSession == InitSession /\ [][NextSession]_vars

\* The certificate lookup, which neither reads nor writes the session
NextLookup ==
  \/ assuan_process
  \/ cmd_lookup

InitLookup == InitSession /\ opt_keyserver = <<>>

SpecLookup == InitLookup /\ [][NextLookup]_vars

\* One ISVALID command after the other.  A handler that has been entered
\* runs on: the calls it makes into the CRL cache, the OCSP checker and the
\* transport return, whatever they answer.
NextIsvalid ==
  \/ assuan_process
  \/ cmd_isvalid
  \/ isvalid_again
  \/ inquire_cert_and_load_crl

InitIsvalid == Init /\ opt_keyserver = <<>> /\ certcache = {}

SpecIsvalid ==
  /\ InitIsvalid /\ [][NextIsvalid]_vars
  /\ WF_vars(isvalid_again) /\ WF_vars(inquire_cert_and_load_crl)

\* The callbacks, which neither read nor write the session
NextCallbacks ==
  \/ assuan_process
  \/ get_istrusted_from_client
  \/ dirmngr_status

SpecCallbacks == InitLookup /\ [][NextCallbacks]_vars

----------------------------------------------------------------------------
(* Properties *)

Calls(call) == SelectSeq(log, LAMBDA e : e.call = call)
Finished    == pc \in {"done", "fatal"}

\* C1: within one ISVALID command the SENDCERT inquiry is issued at most
\* once.  The first "don't know" answer triggers the inquiry; after a
\* successful inquiry and CRL reload exactly one more cache lookup follows,
\* and a "don't know" from that second lookup ends the command with "no CRL
\* known" without a second inquiry.
C1_SingleInquiry ==
  cmd = "ISVALID" =>
    LET lk  == Calls("crl_cache_isvalid")
        inq == Calls("assuan_inquire")
        rl  == Calls("crl_cache_reload_crl")
    IN
    /\ Len(inq) <= 1 /\ Len(lk) <= 2 /\ Len(rl) <= 1
    /\ \A i \in DOMAIN log :
         log[i].call = "assuan_inquire" =>
           /\ log[i].arg = "SENDCERT"
           /\ i = 2 /\ log[1].call = "crl_cache_isvalid"
           /\ log[1].ret = "DONTKNOW"
    /\ Len(lk) = 2 =>
         /\ Len(log) = 4
         /\ log[1].call = "crl_cache_isvalid" /\ log[1].ret = "DONTKNOW"
         /\ log[2].call = "assuan_inquire" /\ log[2].ret = "OK"
         /\ log[3].call = "crl_cache_reload_crl" /\ log[3].ret = "OK"
         /\ log[4].call = "crl_cache_isvalid"
    /\ (Finished /\ Len(lk) >= 1 /\ lk[1].ret = "DONTKNOW") => Len(inq) = 1
    /\ (Finished /\ Len(rl) = 1 /\ rl[1].ret = "OK") => Len(lk) = 2
    /\ (Finished /\ Len(lk) = 2 /\ lk[2].ret = "DONTKNOW") =>
         pc = "done" /\ result = "NO_CRL_KNOWN" /\ Len(inq) = 1

C1_Witness ==
  /\ cmd = "ISVALID" /\ pc = "done" /\ result = "NO_CRL_KNOWN"
  /\ Len(log) = 4 /\ log[2].call = "assuan_inquire"
  /\ log[4].call = "crl_cache_isvalid" /\ log[4].ret = "DONTKNOW"

\* What the claim calls the shape of the ISVALID argument
ClaimHasDot(l) == "." \in Range(l)
ClaimArg(l)    == IF strchr(l, " ") = 0 THEN l
                  ELSE SubSeq(l, 1, strchr(l, " ") - 1)
ClaimHex40(l)  == /\ ~ClaimHasDot(l)
                  /\ Len(ClaimArg(l)) = HEXFPR_LEN
                  /\ Range(ClaimArg(l)) \subseteq HexDigits

\* C2: ISVALID routing is decided by the shape of the argument only: with a
\* '.' the CRL path is taken, with exactly 40 hex characters and no '.' the
\* OCSP path, and every other shape ends with a parameter error before any
\* CRL-cache or OCSP call.
C2_IsvalidRouting ==
  cmd = "ISVALID" =>
    /\ ClaimHasDot(line) =>
         ocsp_mode = 0 /\ result # "ASS_PARAMETER" /\ Count("ocsp_isvalid") = 0
    /\ ClaimHex40(line) =>
         ocsp_mode = 1 /\ result # "ASS_PARAMETER"
         /\ Count("crl_cache_isvalid") = 0
    /\ (~ClaimHasDot(line) /\ ~ClaimHex40(line)) =>
         pc = "done" /\ result = "ASS_PARAMETER" /\ log = <<>>

\* C3: on the ISVALID CRL path the last CRL-cache answer determines the
\* outcome: valid gives success, invalid gives "certificate revoked", can't
\* use gives "no CRL known" (first or retried lookup), and an answer outside
\* the four known codes ends in the fatal state with nothing returned.
C3_CrlAnswerDecides ==
  (cmd = "ISVALID" /\ Len(Calls("crl_cache_isvalid")) >= 1) =>
    LET lk   == Calls("crl_cache_isvalid")
        last == lk[Len(lk)]
    IN
    /\ Finished =>
         /\ last.ret = "VALID"   => pc = "done" /\ result = "OK"
         /\ last.ret = "INVALID" => pc = "done" /\ result = "CERT_REVOKED"
         /\ last.ret = "CANTUSE" => pc = "done" /\ result = "NO_CRL_KNOWN"
    /\ last.ret \notin {"VALID", "INVALID", "DONTKNOW", "CANTUSE"} =>
         pc = "fatal" /\ result = "none" /\ log[Len(log)] = last
    /\ pc = "fatal" =>
         last.ret \notin {"VALID", "INVALID", "DONTKNOW", "CANTUSE"}

C3_Witness ==
  /\ cmd = "ISVALID" /\ pc = "done" /\ result = "NO_CRL_KNOWN"
  /\ Len(log) = 4 /\ log[4].call = "crl_cache_isvalid"
  /\ log[4].ret = "CANTUSE"

C5_CheckcrlSingleRetry ==
  cmd = "CHECKCRL" =>
    LET v  == Calls("crl_cache_cert_isvalid")
        rl == Calls("crl_cache_reload_crl")
        n  == Len(log)
    IN
    /\ Len(rl) <= 1 /\ Len(v) <= 2
    /\ Len(rl) = 1 => Len(v) >= 1 /\ v[1].ret = "NO_CRL_KNOWN"
    /\ Len(v) = 2 =>
         /\ Len(rl) = 1 /\ rl[1].ret = "OK"
         /\ log[n - 2] = v[1] /\ log[n - 1] = rl[1] /\ log[n] = v[2]
         /\ v[1].fpr = v[2].fpr /\ rl[1].fpr = v[1].fpr
    /\ pc = "done" =>
         /\ Len(v) = 2 => result = v[2].ret
         /\ (Len(v) = 1 /\ Len(rl) = 0) => result = v[1].ret
         /\ (Len(v) >= 1 /\ v[1].ret = "NO_CRL_KNOWN") => Len(rl) = 1
         /\ (Len(rl) = 1 /\ rl[1].ret = "OK") => Len(v) = 2
         /\ (Len(rl) = 1 /\ rl[1].ret # "OK") =>
              result = rl[1].ret /\ Len(v) = 1

C5_Witness ==
  /\ cmd = "CHECKCRL" /\ pc = "done"
  /\ Len(Calls("crl_cache_cert_isvalid")) = 2
  /\ Len(Calls("crl_cache_reload_crl")) = 1
  /\ result = "CERT_REVOKED"

CheckCalls == {"crl_cache_cert_isvalid", "crl_cache_reload_crl",
               "ocsp_isvalid"}

\* C6: CHECKCRL and CHECKOCSP issue the TARGETCERT inquiry exactly when the
\* line carries no valid fingerprint or the certificate cache holds no
\* certificate for it; when the cache holds the certificate no inquiry is
\* issued and the cached certificate is the one that is checked.
C6_TargetcertFallback ==
  cmd \in {"CHECKCRL", "CHECKOCSP"} =>
    LET fpr    == get_fingerprint_from_line(line)
        cached == fpr # NoFpr /\ fpr \in certcache
        inq    == Calls("assuan_inquire")
    IN
    /\ Len(inq) <= 1
    /\ \A i \in DOMAIN inq : inq[i].arg = "TARGETCERT"
    /\ pc \in {"checkcrl_inquire", "checkocsp_inquire"} =>
         ~cached /\ Len(inq) = 0
    /\ pc \in {"checkcrl_isvalid", "checkocsp_isvalid", "done"} =>
         (Len(inq) = 1 <=> ~cached)
    /\ cached =>
         /\ cert = [src |-> "cache", fpr |-> fpr]
         /\ \A i \in DOMAIN log :
              log[i].call \in CheckCalls =>
                log[i].arg = "cache" /\ log[i].fpr = fpr

C6_Witness ==
  /\ cmd = "CHECKCRL" /\ pc = "done"
  /\ Count("assuan_inquire") = 0
  /\ Count("crl_cache_cert_isvalid") >= 1
  /\ cert.src = "cache" /\ cert.fpr = FprAA

AfterInquiryCalls == {"crl_cache_isvalid", "crl_cache_reload_crl",
                      "crl_cache_cert_isvalid", "ocsp_isvalid", "cache_cert",
                      "get_cert_byfpr", "validate_cert_chain"}

\* C7: in ISVALID, CHECKCRL, CHECKOCSP, CACHECERT and VALIDATE an inquiry
\* that succeeds at the transport level with a zero-length payload ends the
\* command with "missing certificate", and no CRL-cache, OCSP,
\* certificate-cache or chain-validation call is made after it.
C7_EmptyInquiry ==
  cmd \in {"ISVALID", "CHECKCRL", "CHECKOCSP", "CACHECERT", "VALIDATE"} =>
    \A i \in DOMAIN log :
      (log[i].call = "assuan_inquire" /\ log[i].ret = "OK"
         /\ log[i].kind = "empty") =>
        /\ pc = "done" /\ result = "MISSING_CERT"
        /\ \A j \in DOMAIN log : j > i => log[j].call \notin AfterInquiryCalls
        /\ i = Len(log)

C7_Witness ==
  /\ cmd = "CHECKCRL" /\ pc = "done" /\ result = "MISSING_CERT"
  /\ Len(log) >= 1 /\ log[Len(log)].call = "assuan_inquire"
  /\ log[Len(log)].ret = "OK" /\ log[Len(log)].kind = "empty"

\* C8 as stated: whenever OCSP is disabled a CHECKOCSP command fails with
\* "not supported" and the OCSP checker is never invoked.
C8_Original ==
  (cmd = "CHECKOCSP" /\ ~allow_ocsp) =>
    /\ Count("ocsp_isvalid") = 0
    /\ pc = "done" => result = "NOT_SUPPORTED"

\* C8 amended: whenever OCSP is disabled a CHECKOCSP command never invokes
\* the OCSP checker and never succeeds; it fails with "not supported" once
\* the target certificate has been obtained (from the cache or from a
\* non-empty TARGETCERT inquiry) and with the error of the failed
\* certificate resolution otherwise.
C8_CheckocspDisabled ==
  (cmd = "CHECKOCSP" /\ ~allow_ocsp) =>
    /\ Count("ocsp_isvalid") = 0
    /\ pc = "done" =>
         /\ result # "OK"
         /\ cert # NoCert => result = "NOT_SUPPORTED"
         /\ cert = NoCert =>
              /\ Len(log) >= 1 /\ log[Len(log)].call = "assuan_inquire"
              /\ result = (IF log[Len(log)].ret # "OK" THEN log[Len(log)].ret
                           ELSE IF log[Len(log)].kind = "empty"
                           THEN "MISSING_CERT" ELSE "BAD_BER")

C8_Witness ==
  /\ cmd = "CHECKOCSP" /\ ~allow_ocsp /\ pc = "done"
  /\ result = "NOT_SUPPORTED" /\ cert.src = "peer"
  /\ Count("assuan_inquire") = 1

\* C9: in every command that issues an inquiry, an inquiry failing with a
\* transport error ends the command at once with that error: nothing is
\* called after it, neither a further inquiry nor a collaborator.
C9_InquiryTransportError ==
  \A i \in DOMAIN log :
    (log[i].call = "assuan_inquire" /\ log[i].ret # "OK") =>
      /\ i = Len(log)
      /\ pc = "done" /\ result = log[i].ret

C9_Witness ==
  /\ cmd = "KS_PUT" /\ pc = "done" /\ Len(log) = 2
  /\ log[2].call = "assuan_inquire" /\ log[2].arg = "KEYBLOCK_INFO"
  /\ log[2].ret = "ASS_TOO_MUCH_DATA" /\ result = "ASS_TOO_MUCH_DATA"

\* C10: in KS_PUT a zero-length KEYBLOCK response ends the command with an
\* error before KEYBLOCK_INFO is inquired and before the keyserver put
\* action; KEYBLOCK_INFO is inquired only after a non-empty KEYBLOCK.
C10_KsPutEmptyKeyblock ==
  cmd = "KS_PUT" =>
    \A i \in DOMAIN log :
      /\ (log[i].call = "assuan_inquire" /\ log[i].arg = "KEYBLOCK"
            /\ log[i].ret = "OK" /\ log[i].kind = "empty") =>
           /\ i = Len(log) /\ pc = "done"
           /\ result = "MISSING_CERT"
      /\ (log[i].call = "assuan_inquire" /\ log[i].arg = "KEYBLOCK_INFO") =>
           /\ i = 2 /\ log[1].call = "assuan_inquire"
           /\ log[1].arg = "KEYBLOCK" /\ log[1].ret = "OK"
           /\ log[1].kind \notin {"empty", "none"}
      /\ log[i].call = "ks_action_put" =>
           /\ i = 3 /\ log[2].arg = "KEYBLOCK_INFO" /\ log[2].ret = "OK"

C10_Witness ==
  /\ cmd = "KS_PUT" /\ pc = "done" /\ result = "MISSING_CERT"
  /\ Len(log) = 1 /\ log[1].arg = "KEYBLOCK" /\ log[1].kind = "empty"


----------------------------------------------------------------------------
(* Properties of the keyserver registry *)

\* a KEYSERVER command that is not a --help request and carries a URI
KeyserverAdd == pc = "idle" /\ cmd' = "KEYSERVER" /\ "--help" \notin flags'
                /\ line' # <<>>

\* C11: a KEYSERVER command whose URI does not parse returns the parser's
\* error and leaves the registry as it was, with and without --clear
C11_BadUriKeepsRegistry ==
  [][KeyserverAdd /\ http_parse_uri(line'[1]) # "OK"
       => /\ result' = http_parse_uri(line'[1])
          /\ result' # "OK"
          /\ keyservers' = keyservers]_vars

C11_Witness ==
  /\ pc = "done" /\ cmd = "KEYSERVER" /\ flags = {"--clear"}
  /\ line = <<BadUri>> /\ result = "INV_URI"
  /\ keyservers # <<>>

\* C12: a KEYSERVER command with --clear and a parsable URI leaves exactly
\* that URI in the registry, whatever was there before
C12_ClearThenAdd ==
  [][KeyserverAdd /\ "--clear" \in flags' /\ http_parse_uri(line'[1]) = "OK"
       => result' = "OK" /\ keyservers' = <<line'[1]>>]_vars

\* nothing was configured, so the lone entry is the URI of the command
C12_Witness ==
  /\ pc = "done" /\ cmd = "KEYSERVER" /\ flags = {"--clear"}
  /\ line = <<"hkp://b">> /\ keyservers = <<"hkp://b">>
  /\ opt_keyserver = <<>>

SeedingCommands == {"KS_SEARCH", "KS_GET", "KS_FETCH", "KS_PUT"}

\* C13: the registry is changed only by a KEYSERVER command, by the seeding
\* of an empty registry in a KS_* command and by the end of the connection;
\* RESET, OPTION and every other command leave it as it is
C13_RegistryFrame ==
  [][keyservers' # keyservers
       => \/ cmd' = "KEYSERVER"
          \/ cmd' \in SeedingCommands /\ keyservers = <<>>
          \/ pc' = "closed"]_vars

C13_Witness ==
  /\ pc = "done" /\ cmd = "RESET" /\ result = "OK"
  /\ keyservers = <<"hkp://a">> /\ opt_keyserver = <<"hkp://b">>

\* the no-argument KEYSERVER command has listed the registry
ListingDone ==
  /\ pc = "done" /\ cmd = "KEYSERVER" /\ flags = {} /\ line = <<>>
  /\ result = "OK"

KsActions == {"ks_action_search", "ks_action_get", "ks_action_put"}

\* C14: an add without --clear puts the URI in front of the entries already
\* there; the listing emits one KEYSERVER status line per entry, front
\* first, and the keyserver actions are handed the registry in that order
C14_ListingOrder ==
  [][/\ KeyserverAdd /\ "--clear" \notin flags' /\ result' = "OK"
          => keyservers' = <<line'[1]>> \o keyservers
     /\ ListingDone'
          => /\ Len(log') = Len(keyservers')
             /\ \A i \in DOMAIN log' :
                  /\ log'[i].call = "dirmngr_status"
                  /\ log'[i].arg = "KEYSERVER"
                  /\ log'[i].ret = keyservers'[i]
     /\ pc' = "done"
          => \A i \in DOMAIN log' :
               log'[i].call \in KsActions => log'[i].ks = keyservers']_vars

\* nothing was configured, so both entries were added, hkp://a first
C14_Witness ==
  /\ ListingDone /\ opt_keyserver = <<>>
  /\ keyservers = <<"hkp://b", "hkp://a">>

\* a command that seeds the registry when it is empty
SeedingCommand ==
  /\ pc = "idle" /\ pc' = "done"
  /\ \/ cmd' \in SeedingCommands
     \/ cmd' = "KEYSERVER" /\ flags' = {} /\ line' = <<>>

AllParsable(cfg) == \A i \in DOMAIN cfg : http_parse_uri(cfg[i]) = "OK"

\* C15: seeding an empty registry from a configuration whose URIs all parse
\* gives the registry the order of the configuration; with nothing
\* configured it gives the one default entry
C15_SeedingOrder ==
  [][SeedingCommand /\ keyservers = <<>> /\ AllParsable(opt_keyserver)
       => keyservers' = IF opt_keyserver = <<>>
                        THEN <<DIRMNGR_DEFAULT_KEYSERVER>>
                        ELSE opt_keyserver]_vars

\* C16: a seeding command that finds at least one entry in the registry
\* leaves the registry as it is; no default keyserver is added
C16_NoReseeding ==
  [][SeedingCommand /\ keyservers # <<>> => keyservers' = keyservers]_vars

\* nothing was configured, yet the added entry is alone after KS_GET
C16_Witness ==
  /\ pc = "done" /\ cmd = "KS_GET" /\ opt_keyserver = <<>>
  /\ keyservers = <<"hkp://a">>

\* C17: every entry of the registry has a URI that parses
C17_RegistryParsed ==
  \A i \in DOMAIN keyservers : http_parse_uri(keyservers[i]) = "OK"

\* a seeding that failed at the second configured URI
C17_Witness ==
  /\ pc = "done" /\ cmd \in SeedingCommands /\ result = "INV_URI"
  /\ opt_keyserver = <<"hkp://a", BadUri>> /\ keyservers = <<"hkp://a">>

----------------------------------------------------------------------------
(* Properties of LOOKUP *)

LookupByPatternDone == pc = "done" /\ cmd = "LOOKUP" /\ "--url" \notin flags

PatternAnswers == Calls("get_certs_bypattern")

TruncatedStatus ==
  SelectSeq(log, LAMBDA e : e.call = "assuan_write_status"
                            /\ e.arg = "TRUNCATED")

\* C19: a lookup by pattern whose certificate lookup reported a capped
\* result set emits one TRUNCATED status with the number of certificates
\* returned; a lookup without such a report emits none
C19_TruncatedStatus ==
  LookupByPatternDone
    => IF \E k \in DOMAIN PatternAnswers : PatternAnswers[k].ret = "TRUNCATED"
       THEN /\ Len(TruncatedStatus) = 1
            /\ TruncatedStatus[1].max =
                 Len(SelectSeq(PatternAnswers, LAMBDA e : e.ret = "OK"))
       ELSE Len(TruncatedStatus) = 0

\* the case in which the lookup ends with "no data"
OnlyNoData ==
  /\ "--cache-only" \in flags
  /\ PatternAnswers # <<>>
  /\ \A k \in DOMAIN PatternAnswers : PatternAnswers[k].ret = "NO_DATA"

\* C20: "no data" for a pattern is followed by the query of the next
\* pattern; the lookup ends with "no data" exactly when --cache-only was
\* given, a pattern answered "no data", none matched and nothing else
\* failed; when every answer was a match or "no data" it ends with success
\* otherwise
C20_NoDataHandling ==
  LookupByPatternDone
    => /\ \A k \in DOMAIN PatternAnswers :
            PatternAnswers[k].ret = "NO_DATA"
            /\ k < Len(pattern_list(line))
              => Len(PatternAnswers) > k
       /\ result = "NO_DATA" <=> OnlyNoData
       /\ (\A k \in DOMAIN PatternAnswers :
             PatternAnswers[k].ret \in {"OK", "NO_DATA"})
          /\ ~OnlyNoData
            => result = "OK"

\* two patterns, both answered "no data" by the cache
C20_Witness ==
  /\ LookupByPatternDone /\ flags = {"--cache-only"}
  /\ Len(pattern_list(line)) = 2 /\ Len(PatternAnswers) = 2
  /\ OnlyNoData /\ result = "NO_DATA"

\* C21: in single mode the patterns are queried in the order of the line and
\* a query that yielded a certificate is the last one of the command
C21_SingleStopsAtHit ==
  LookupByPatternDone /\ "--single" \in flags
    => \A k \in DOMAIN PatternAnswers :
         /\ k <= Len(pattern_list(line))
         /\ PatternAnswers[k].pat = pattern_list(line)[k]
         /\ PatternAnswers[k].ret = "OK" => k = Len(PatternAnswers)

\* the first of two patterns matched and the second was not queried
C21_Witness ==
  /\ LookupByPatternDone /\ flags = {"--single", "--cache-only"}
  /\ Len(pattern_list(line)) = 2 /\ Len(PatternAnswers) = 1
  /\ PatternAnswers[1].ret = "OK" /\ result = "OK"

----------------------------------------------------------------------------
(* Properties of the parsers and decoders *)

\* the hex digits of a text, its colons dropped
ClaimDigits(t) == SelectSeq(t, LAMBDA c : c # ":")

\* a text made of hex-digit pairs and colons only: every character is a hex
\* digit or a colon and every run of digits between colons has even length
ClaimPairsAndColons(t) ==
  /\ \A i \in DOMAIN t : t[i] \in HexDigits \cup {":"}
  /\ \A i \in DOMAIN t :
       t[i] # ":" /\ (i = 1 \/ t[i - 1] = ":")
         => LET stop == CHOOSE j \in i..(Len(t) + 1) :
                          /\ j = Len(t) + 1 \/ t[j] = ":"
                          /\ \A m \in i..(j - 1) : t[m] # ":"
            IN (stop - i) % 2 = 0

\* the fingerprint the text before the first space stands for, NoFpr if none
ClaimFpr(l) ==
  LET t == ClaimArg(l)
      d == ClaimDigits(t)
  IN IF ClaimPairsAndColons(t) /\ Len(d) = 2 * FPR_LEN
     THEN [k \in 1..FPR_LEN |-> 16 * xtoi_1(d[2 * k - 1]) + xtoi_1(d[2 * k])]
     ELSE NoFpr

\* C22: the parser finds a fingerprint exactly in a text of twenty hex-digit
\* pairs with colons between pairs, and then its bytes are those pairs in
\* order (CHECKCRL and CHECKOCSP look the parsed fingerprint up in the cache)
C22_FingerprintParser ==
  cmd \in {"CHECKCRL", "CHECKOCSP"}
    => IF ClaimFpr(line) = NoFpr
       THEN Calls("get_cert_byfpr") = <<>>
       ELSE /\ Len(Calls("get_cert_byfpr")) = 1
            /\ Calls("get_cert_byfpr")[1].fpr = ClaimFpr(line)

\* the colon rendering of twenty different bytes was parsed
C22_Witness ==
  /\ cmd = "CHECKCRL" /\ line = Hex40Colons \o <<" ", "x">>
  /\ Len(Calls("get_cert_byfpr")) = 1
  /\ Calls("get_cert_byfpr")[1].fpr = get_fingerprint_from_line(Hex40)
  /\ Calls("get_cert_byfpr")[1].fpr[2] = 35

\* the pieces between the spaces of the line of a LOOKUP by pattern
LookupPieces == break_line(line, 1, <<>>)

LookupByPattern == cmd = "LOOKUP" /\ "--url" \notin flags

\* C23: the decoder writes, before the terminator, at most as many bytes as
\* the token has characters, and so the pattern handed on is no longer
C23_DecoderNeverExpands ==
  LookupByPattern
    => /\ \A k \in DOMAIN LookupPieces :
            Len(strcpy_escaped_plus(LookupPieces[k])) <= Len(LookupPieces[k])
       /\ \A k \in DOMAIN PatternAnswers :
            Len(PatternAnswers[k].pat) <= Len(LookupPieces[k])

\* three characters were decoded into one byte
C23_Witness ==
  /\ LookupByPatternDone /\ line = <<"%", "4", "1">>
  /\ Len(PatternAnswers) = 1 /\ PatternAnswers[1].pat = <<65>>

\* what the decoder is said to write: a space for '+', the byte for '%' and
\* two hex digits, every other character as it is
RECURSIVE ClaimDecode(_, _)
ClaimDecode(t, i) ==
  IF i > Len(t) THEN <<>>
  ELSE IF t[i] = "+" THEN <<32>> \o ClaimDecode(t, i + 1)
  ELSE IF /\ t[i] = "%" /\ i + 2 <= Len(t)
          /\ t[i + 1] \in HexDigits /\ t[i + 2] \in HexDigits
  THEN <<16 * xtoi_1(t[i + 1]) + xtoi_1(t[i + 2])>> \o ClaimDecode(t, i + 3)
  ELSE <<Ord(t[i])>> \o ClaimDecode(t, i + 1)

\* C24: the decoder turns '+' into a space and '%' with two hex digits into
\* the byte of that value and copies everything else, a '%' without two
\* hex digits behind it included
C24_EscapeDecoder ==
  LookupByPattern
    => /\ \A k \in DOMAIN LookupPieces :
            strcpy_escaped_plus(LookupPieces[k]) = ClaimDecode(LookupPieces[k], 1)
       /\ \A k \in DOMAIN PatternAnswers :
            PatternAnswers[k].pat = c_str(ClaimDecode(LookupPieces[k], 1))

----------------------------------------------------------------------------
(* Properties of the inquiries *)

Inquiries == Calls("assuan_inquire")

SingleCertInquiries ==
  {"SENDCERT", "SENDISSUERCERT", "SENDCERT_SKI", "TARGETCERT"}

\* C25: an inquiry for one certificate carries the 16 KiB ceiling, CERTLIST
\* the list ceiling, KEYBLOCK the 20 MiB ceiling, and no inquiry for a
\* certificate or a key is without a size bound
C25_InquiryCeilings ==
  \A i \in DOMAIN Inquiries :
    /\ Inquiries[i].arg \in SingleCertInquiries
         => Inquiries[i].max = MAX_CERT_LENGTH
    /\ Inquiries[i].arg = "CERTLIST"
         => Inquiries[i].max = MAX_CERTLIST_LENGTH
    /\ Inquiries[i].arg = "KEYBLOCK"
         => Inquiries[i].max = MAX_KEYBLOCK_LENGTH
    /\ Inquiries[i].max > 0

Istrusted == SelectSeq(log, LAMBDA e : e.arg = "ISTRUSTED")

\* the body is "1" alone or "1" followed by a blank
ClaimOneOrOneCruft(v) ==
  \/ v = <<"1">>
  \/ Len(v) >= 2 /\ v[1] = "1" /\ v[2] \in {" ", "\t"}

\* C26 as stated: the ISTRUSTED inquiry yields success exactly when the
\* response body starts with '1' and "not trusted" for every other body; a
\* transport failure is returned as it is
C26_TrustedIffStartsWithOne ==
  pc = "done" =>
    \A i \in DOMAIN Istrusted :
      LET e == Istrusted[i] IN
      IF e.ret # "OK" THEN result = e.ret
      ELSE IF Len(e.pat) > 0 /\ e.pat[1] = "1" THEN result = "OK"
      ELSE result = "NOT_TRUSTED"

\* C26 amended: the ISTRUSTED inquiry yields success exactly when the
\* response body is '1' alone or '1' followed by a space or a tab, and "not
\* trusted" for every other body, the empty one included; a transport
\* failure of the inquiry is returned as that transport error
C26_TrustedIffOneOrOneCruft ==
  pc = "done" =>
    \A i \in DOMAIN Istrusted :
      LET e == Istrusted[i] IN
      IF e.ret # "OK" THEN result = e.ret
      ELSE IF ClaimOneOrOneCruft(e.pat) THEN result = "OK"
      ELSE result = "NOT_TRUSTED"

\* a body that starts with '1' and goes on with another character has been
\* answered and was taken as "not trusted"
C26_Witness ==
  /\ pc = "done"
  /\ \E i \in DOMAIN Istrusted :
       /\ Istrusted[i].ret = "OK" /\ Istrusted[i].pat = <<"1", "x">>
       /\ result = "NOT_TRUSTED"

ExternalActions ==
  {"ks_action_search", "ks_action_get", "ks_action_fetch", "ks_action_put",
   "crl_cache_list"}

\* C27: when the external action behind KS_SEARCH, KS_GET, KS_FETCH, KS_PUT
\* or LISTCRLS reports an error, the outcome the handler returns to the
\* dispatcher is that error and not success
C27_ActionErrorReturned ==
  pc = "done" =>
    \A i \in DOMAIN log :
      (log[i].call \in ExternalActions /\ log[i].ret # "OK")
        => result = log[i].ret

CrlLookups == Calls("crl_cache_isvalid")

\* C28: in ISVALID the issuer hash and the serial number passed to the
\* second CRL-cache lookup are those passed to the first, whatever the
\* SENDCERT round trip in between has written into the line buffer
C28_SameIdsAfterInquiry ==
  cmd = "ISVALID" =>
    \A i \in DOMAIN CrlLookups :
      /\ CrlLookups[i].pat = CrlLookups[1].pat
      /\ CrlLookups[i].pat = <<isvalid_parse(line).issuerhash,
                               isvalid_parse(line).serialno>>

\* a second lookup has been made after an inquiry that left another line
\* with a '.' in it in the buffer
C28_Witness ==
  /\ cmd = "ISVALID" /\ Len(CrlLookups) = 2
  /\ line = <<"A", "B", ".", "0", "1">>
  /\ linebuf = <<"D", " ", "C", "D", ".", "0", "2">>
  /\ CrlLookups[2].pat = <<(<<"A", "B">>), (<<"0", "1">>)>>

StatusLines == Calls("assuan_write_status")

\* C29: for every number and length of string fragments the status writer
\* builds a line that stays within its 950-byte buffer, the terminator
\* included: no byte is written past the end of the buffer
C29_StatusWithinBuffer ==
  \A i \in DOMAIN StatusLines : StatusLines[i].written <= DIM_buf

OptionDone == pc = "idle" /\ pc' = "done" /\ cmd' = "OPTION"

\* C30: an OPTION with key force-crl-refresh, http-proxy or http-crl changes
\* only the request setting of that key and leaves the keyserver registry
\* and the other settings as they were; an OPTION with any other key returns
\* "unknown option" and changes no session state at all
C30_OptionFrame ==
  [][OptionDone =>
       /\ UNCHANGED <<keyservers, certcache, allow_ocsp, opt_keyserver>>
       /\ line'[1] = "force-crl-refresh"
            => UNCHANGED <<http_proxy, http_no_crl>>
       /\ line'[1] = "http-proxy"
            => UNCHANGED <<force_crl_refresh, http_no_crl>>
       /\ line'[1] = "http-crl"
            => UNCHANGED <<force_crl_refresh, http_proxy>>
       /\ line'[1] \notin {"force-crl-refresh", "http-proxy", "http-crl"}
            => /\ result' = "UNKNOWN_OPTION"
               /\ UNCHANGED <<force_crl_refresh, http_proxy, http_no_crl>>
  ]_vars

\* http-crl has been switched off by an OPTION while the registry held a
\* keyserver and the two other settings were away from their defaults
C30_Witness ==
  /\ pc = "done" /\ cmd = "OPTION" /\ line = <<"http-crl", "">>
  /\ result = "OK" /\ http_no_crl = 1
  /\ force_crl_refresh = 1 /\ http_proxy = "1" /\ keyservers # <<>>

SeedingStep == SeedingCommand /\ keyservers = <<>> /\ keyservers' # <<>>

\* C32: lazy seeding fills the registry at most once in a session: once it
\* has been seeded no later command seeds it again, also not after a
\* KEYSERVER --clear has emptied it
C32_SeedsOnce == [][seeded => ~SeedingStep]_vars

\* the error ensure_keyserver returns when it is called now
SeedingError == ensure_keyserver(keyservers, opt_keyserver).err

\* C33: when lazy seeding fails, each of KS_SEARCH, KS_GET, KS_FETCH and
\* KS_PUT ends with that error without calling its keyserver action and
\* without issuing an inquiry or sending data; stated for the commands
\* that return
C33_SeedingFailureEndsCommand ==
  [][(pc = "idle" /\ pc' = "done" /\ cmd' \in SeedingCommands
      /\ SeedingError # "OK")
       => result' = SeedingError /\ log' = <<>>]_vars

\* the tokens the command at hand has handed to the decoder
DecoderCaller ==
  \/ cmd \in {"KS_SEARCH", "KS_GET"}
  \/ cmd \in {"LOOKUP", "LOADCRL"} /\ "--url" \notin flags

DecodedTokens == IF DecoderCaller THEN decoder_tokens(cmd, line) ELSE <<>>

\* C34: in every caller of the escape decoder and for every token the
\* decoded bytes and the closing NUL fit within the buffer the caller
\* allocated for the token
C34_DecoderFitsBuffer ==
  \A k \in DOMAIN DecodedTokens :
    decoder_written(DecodedTokens[k]) <= decoder_buffer(cmd, DecodedTokens[k])

\* C35: a lazy seeding that fails on a configured URI that does not parse
\* leaves the registry empty, so that the next command that needs
\* keyservers tries the seeding again and reports the error again
C35_FailedSeedingLeavesEmpty ==
  [][(SeedingCommand /\ keyservers = <<>> /\ SeedingError # "OK")
       => keyservers' = <<>>]_vars

====
